---- MODULE Spec2Model ----
(***************************************************************************)
(* Model of the MotorDex backend (motordex-backend/server/server.ts):      *)
(* the POST /upload handler, its plate extraction and matcher, and the     *)
(* registry lookup.                                                        *)
(*                                                                         *)
(* A string is a sequence of one-character strings, so that the regular    *)
(* expressions, trim, replace and toUpperCase of the source are computed   *)
(* character by character.                                                 *)
(***************************************************************************)
EXTENDS Integers, Sequences, FiniteSets, TLC

\* ------------------------------------------------------------------------
\* Characters and the string primitives of JavaScript the server uses
\* ------------------------------------------------------------------------

UpperSeq ==
  << "A","B","C","D","E","F","G","H","I","J","K","L","M",
     "N","O","P","Q","R","S","T","U","V","W","X","Y","Z" >>

LowerSeq ==
  << "a","b","c","d","e","f","g","h","i","j","k","l","m",
     "n","o","p","q","r","s","t","u","v","w","x","y","z" >>

UpperChars == { UpperSeq[i] : i \in DOMAIN UpperSeq }

LowerChars == { LowerSeq[i] : i \in DOMAIN LowerSeq }

DigitChars == { "0","1","2","3","4","5","6","7","8","9" }

\* the characters \s matches, among those the model uses
WhiteChars == { " ", "\n" }

\* String.prototype.toUpperCase on one character
UpperOf(c) ==
  IF c \in LowerChars
    THEN UpperSeq[CHOOSE i \in DOMAIN LowerSeq : LowerSeq[i] = c]
    ELSE c

ToUpperCase(s) == [i \in DOMAIN s |-> UpperOf(s[i])]

\* String.prototype.toLowerCase
LowerOf(c) ==
  IF c \in UpperChars
    THEN LowerSeq[CHOOSE i \in DOMAIN UpperSeq : UpperSeq[i] = c]
    ELSE c

ToLowerCase(s) == [i \in DOMAIN s |-> LowerOf(s[i])]

IsWhite(c) == c \in WhiteChars

\* s.replace(/\s+/g, '')
StripWhitespace(s) == SelectSeq(s, LAMBDA c : ~IsWhite(c))

\* String.prototype.trim
RECURSIVE TrimLeft(_)
TrimLeft(s) ==
  IF s # << >> /\ IsWhite(Head(s)) THEN TrimLeft(Tail(s)) ELSE s

RECURSIVE TrimRight(_)
TrimRight(s) ==
  IF s # << >> /\ IsWhite(s[Len(s)])
    THEN TrimRight(SubSeq(s, 1, Len(s) - 1))
    ELSE s

Trim(s) == TrimRight(TrimLeft(s))

\* s.replace(/\n/g, ' ')
NewlinesToSpaces(s) == [i \in DOMAIN s |-> IF s[i] = "\n" THEN " " ELSE s[i]]

\* s.replace(/\s+/g, ' '): every maximal run of whitespace becomes one space
RECURSIVE CollapseWhitespace(_)
CollapseWhitespace(s) ==
  IF s = << >> THEN << >>
  ELSE IF IsWhite(Head(s))
    THEN << " " >> \o CollapseWhitespace(TrimLeft(s))
    ELSE << Head(s) >> \o CollapseWhitespace(Tail(s))

\* Array.prototype.join(sep) on an array of strings
RECURSIVE Join(_, _)
Join(xs, sep) ==
  IF xs = << >> THEN << >>
  ELSE IF Len(xs) = 1 THEN xs[1]
  ELSE xs[1] \o sep \o Join(Tail(xs), sep)

\* Dedupe keeping the last occurrence of each element, not the first
RECURSIVE DedupeKeepLast(_)
DedupeKeepLast(xs) ==
  IF xs = << >> THEN << >>
  ELSE IF \E i \in 2 .. Len(xs) : xs[i] = Head(xs)
    THEN DedupeKeepLast(Tail(xs))
    ELSE << Head(xs) >> \o DedupeKeepLast(Tail(xs))

\* [...new Set(xs)]: a Set keeps the insertion order of first occurrences
RECURSIVE Dedupe(_)
Dedupe(xs) ==
  IF xs = << >> THEN << >>
  ELSE LET init == Dedupe(SubSeq(xs, 1, Len(xs) - 1))
           last == xs[Len(xs)]
       IN  IF \E i \in DOMAIN init : init[i] = last
             THEN init
             ELSE Append(init, last)

\* ------------------------------------------------------------------------
\* Regular expressions: a pattern is a sequence of items, each a character
\* class repeated between min and max times (max < min: no upper limit).
\* ------------------------------------------------------------------------

Exactly(cls, n) == [cls |-> cls, min |-> n, max |-> n]

Between(cls, lo, hi) == [cls |-> cls, min |-> lo, max |-> hi]

AtLeast(cls, lo) == [cls |-> cls, min |-> lo, max |-> lo - 1]

\* "U" is [A-Z], "D" is \d, "S" is \s; any other class is that literal
ClassHas(cls, c) ==
  CASE cls = "U" -> c \in UpperChars
    [] cls = "D" -> c \in DigitChars
    [] cls = "S" -> c \in WhiteChars
    [] OTHER     -> c = cls

\* how many repetitions of item may start at position i of s
Repeats(item, s, i) ==
  LET hi == IF item.max < item.min THEN Len(s) ELSE item.max
  IN  { n \in item.min .. hi :
          \A j \in 0 .. n - 1 :
            i + j <= Len(s) /\ ClassHas(item.cls, s[i + j]) }

\* the positions just after a match of items k.. of pat that starts at i
RECURSIVE PrefixEnds(_, _, _, _)
PrefixEnds(pat, k, s, i) ==
  IF k > Len(pat) THEN { i }
  ELSE UNION { PrefixEnds(pat, k + 1, s, i + n) : n \in Repeats(pat[k], s, i) }

\* /^pat$/.test(s)
Test(pat, s) == (Len(s) + 1) \in PrefixEnds(pat, 1, s, 1)

MaxOf(S) == CHOOSE x \in S : \A y \in S : y <= x

\* s.match(/pat/g): leftmost matches, each scan resuming after the last match
RECURSIVE MatchAll(_, _, _)
MatchAll(pat, s, i) ==
  IF i > Len(s) THEN << >>
  ELSE LET ends == PrefixEnds(pat, 1, s, i)
       IN  IF ends = {} THEN MatchAll(pat, s, i + 1)
           ELSE << SubSeq(s, i, MaxOf(ends) - 1) >> \o MatchAll(pat, s, MaxOf(ends))

\* ------------------------------------------------------------------------
\* UK licence plate validation (isValidUKLicensePlate)
\* ------------------------------------------------------------------------

CurrentFormat == << Exactly("U", 2), Exactly("D", 2), Exactly("U", 3) >>

PrefixFormat == << Exactly("U", 1), Between("D", 1, 3), Exactly("U", 3) >>

SuffixFormat == << Exactly("U", 3), Between("D", 1, 3), Exactly("U", 1) >>

DatelessFormat == << Between("U", 1, 3), Between("D", 1, 4) >>

PartialFirstPart == << Exactly("U", 2), Exactly("D", 2) >>

PartialSecondPart == << Exactly("U", 3) >>

\* patterns without the suffix format
patternsWithoutSuffix ==
  << CurrentFormat, PrefixFormat, DatelessFormat,
     PartialFirstPart, PartialSecondPart >>

patterns ==
  << CurrentFormat, PrefixFormat, SuffixFormat, DatelessFormat,
     PartialFirstPart, PartialSecondPart >>

\* cleanTextOf without toUpperCase
cleanTextKeepsCase(text) == StripWhitespace(text)

cleanTextOf(text) == ToUpperCase(StripWhitespace(text))

isValidUKLicensePlate(text) ==
  LET cleanText == cleanTextOf(text)
  IN  IF Len(cleanText) >= 7 /\ Test(CurrentFormat, cleanText)
        THEN TRUE
        ELSE \E k \in DOMAIN patterns : Test(patterns[k], cleanText)

\* ------------------------------------------------------------------------
\* Plate extraction (extractLicensePlates).  An annotation is the text of
\* its description; annotations[1] is the full text of the image.
\* ------------------------------------------------------------------------

\* textAnnotations[0]?.description?.trim()
fullTextOf(annotations) ==
  IF annotations = << >> THEN << >> ELSE Trim(annotations[1])

\* textSegmentsOf without filter(Boolean)
textSegmentsUnfiltered(annotations) ==
  [i \in 1 .. Len(annotations) - 1 |-> Trim(annotations[i + 1])]

\* annotations.slice(1).map(a => a.description?.trim()).filter(Boolean)
textSegmentsOf(annotations) ==
  SelectSeq([i \in 1 .. Len(annotations) - 1 |-> Trim(annotations[i + 1])],
            LAMBDA t : t # << >>)

\* FullTextPlate with two letters at the end
FullTextPlateShortTail ==
  << Exactly("U", 2), Exactly("D", 2), AtLeast("S", 0), Exactly("U", 2) >>

\* /[A-Z]{2}\d{2}\s*[A-Z]{3}/g
FullTextPlate ==
  << Exactly("U", 2), Exactly("D", 2), AtLeast("S", 0), Exactly("U", 3) >>

\* the elements of xs that satisfy the matcher, as they are
ValidAsRead(xs) == SelectSeq(xs, isValidUKLicensePlate)

\* the elements of xs that satisfy the matcher, each normalized
ValidCleaned(xs) ==
  LET valid == SelectSeq(xs, isValidUKLicensePlate)
  IN  [i \in 1 .. Len(valid) |-> cleanTextOf(valid[i])]

\* Method 1: complete plates in the full text
Method1(annotations) ==
  LET fullText == fullTextOf(annotations)
      cleanFullText == Trim(CollapseWhitespace(NewlinesToSpaces(fullText)))
      plateMatches == MatchAll(FullTextPlate, cleanFullText, 1)
  IN  IF fullText = << >> THEN << >>
      ELSE [i \in 1 .. Len(plateMatches) |-> cleanTextOf(plateMatches[i])]

\* Method 2: individual annotations (annotations.forEach)
Method2(annotations) ==
  ValidCleaned(SelectSeq([i \in 1 .. Len(annotations) |-> Trim(annotations[i])],
                         LAMBDA t : t # << >>))

\* Method 3: two adjacent text segments joined by a space
Method3(annotations) ==
  LET ts == textSegmentsOf(annotations)
  IN  ValidCleaned([i \in 1 .. Len(ts) - 1 |-> ts[i] \o << " " >> \o ts[i + 1]])

\* Method4 with a loop that stops one triple early
Method4MissesLast(annotations) ==
  LET ts == textSegmentsOf(annotations)
  IN  ValidCleaned([i \in 1 .. Len(ts) - 3 |->
                      ts[i] \o ts[i + 1] \o << " " >> \o ts[i + 2]])

\* Method 4: three adjacent text segments, a space before the third
Method4(annotations) ==
  LET ts == textSegmentsOf(annotations)
  IN  ValidCleaned([i \in 1 .. Len(ts) - 2 |->
                      ts[i] \o ts[i + 1] \o << " " >> \o ts[i + 2]])

\* the plates array just before the return statement
pushedPlates(annotations) ==
  Method1(annotations) \o Method2(annotations)
    \o Method3(annotations) \o Method4(annotations)

extractLicensePlates(annotations) == Dedupe(pushedPlates(annotations))

\* ------------------------------------------------------------------------
\* The registry (Vehicle Databases API) and lookupVehicle.  A JSON value is
\* [obj |-> fields], a leaf [str |-> text], undefined or null.
\* ------------------------------------------------------------------------

Undefined == [undef |-> TRUE]

Null == [null |-> TRUE]

\* a TypeError raised by reading a property of undefined
TypeError == [throw |-> "TypeError"]

Str(text) == [str |-> text]

Obj(fields) == [obj |-> fields]

\* o[k] in JavaScript: a property of an object, undefined when the object
\* has no such property or o is a string, a TypeError when o is undefined
\* or null (or when evaluating o threw already)
Prop(o, k) ==
  IF "obj" \in DOMAIN o
    THEN IF k \in DOMAIN o.obj THEN o.obj[k] ELSE Undefined
  ELSE IF "str" \in DOMAIN o THEN Undefined
  ELSE TypeError

Prop2(o, k1, k2) == Prop(Prop(o, k1), k2)

Prop3(o, k1, k2, k3) == Prop(Prop2(o, k1, k2), k3)

\* vehicleDataOf with fuel_economy_urban read from extra_urban
vehicleDataUrbanMisread(apiData) ==
  [ registrationNumber       |-> Prop(apiData, "registration number"),
    year                     |-> Prop2(apiData, "vehicle_description", "year"),
    make                     |-> Prop2(apiData, "vehicle_description", "make"),
    model                    |-> Prop2(apiData, "vehicle_description", "model"),
    bodystyle                |-> Prop2(apiData, "vehicle_description", "bodystyle"),
    color                    |-> Prop2(apiData, "vehicle_description", "color"),
    engine                   |-> Prop2(apiData, "vehicle_description", "engine"),
    cylinders                |-> Prop2(apiData, "vehicle_description", "cylinders"),
    gears                    |-> Prop2(apiData, "vehicle_description", "gears"),
    fuel_type                |-> Prop2(apiData, "vehicle_description", "fuel_type"),
    date_first_registered    |-> Prop2(apiData, "vehicle_registration", "date_first_registered"),
    mot_due_status           |-> Prop3(apiData, "mot_tax_dues", "mot_due", "status"),
    mot_due_ends             |-> Prop3(apiData, "mot_tax_dues", "mot_due", "ends on"),
    tax_due_status           |-> Prop3(apiData, "mot_tax_dues", "tax_due", "status"),
    tax_due_ends             |-> Prop3(apiData, "mot_tax_dues", "tax_due", "ends on"),
    power_bhp                |-> Prop3(apiData, "vehicle_performance", "power", "bhp"),
    power_kw                 |-> Prop3(apiData, "vehicle_performance", "power", "kw"),
    max_speed_mph            |-> Prop3(apiData, "vehicle_performance", "max_speed", "mph"),
    fuel_economy_combined    |-> Prop3(apiData, "fuel_economy", "combined", "mpg"),
    fuel_economy_extra_urban |-> Prop3(apiData, "fuel_economy", "extra_urban", "mpg"),
    fuel_economy_urban       |-> Prop3(apiData, "fuel_economy", "extra_urban", "mpg"),
    co2_emission             |-> Prop2(apiData, "co2_emissions_figures", "co2_emission"),
    ved_co2_band             |-> Prop2(apiData, "co2_emissions_figures", "ved_co2_band") ]

\* the object literal of lookupVehicle: apiData projected onto VehicleData
vehicleDataOf(apiData) ==
  [ registrationNumber       |-> Prop(apiData, "registration number"),
    year                     |-> Prop2(apiData, "vehicle_description", "year"),
    make                     |-> Prop2(apiData, "vehicle_description", "make"),
    model                    |-> Prop2(apiData, "vehicle_description", "model"),
    bodystyle                |-> Prop2(apiData, "vehicle_description", "bodystyle"),
    color                    |-> Prop2(apiData, "vehicle_description", "color"),
    engine                   |-> Prop2(apiData, "vehicle_description", "engine"),
    cylinders                |-> Prop2(apiData, "vehicle_description", "cylinders"),
    gears                    |-> Prop2(apiData, "vehicle_description", "gears"),
    fuel_type                |-> Prop2(apiData, "vehicle_description", "fuel_type"),
    date_first_registered    |-> Prop2(apiData, "vehicle_registration", "date_first_registered"),
    mot_due_status           |-> Prop3(apiData, "mot_tax_dues", "mot_due", "status"),
    mot_due_ends             |-> Prop3(apiData, "mot_tax_dues", "mot_due", "ends on"),
    tax_due_status           |-> Prop3(apiData, "mot_tax_dues", "tax_due", "status"),
    tax_due_ends             |-> Prop3(apiData, "mot_tax_dues", "tax_due", "ends on"),
    power_bhp                |-> Prop3(apiData, "vehicle_performance", "power", "bhp"),
    power_kw                 |-> Prop3(apiData, "vehicle_performance", "power", "kw"),
    max_speed_mph            |-> Prop3(apiData, "vehicle_performance", "max_speed", "mph"),
    fuel_economy_combined    |-> Prop3(apiData, "fuel_economy", "combined", "mpg"),
    fuel_economy_extra_urban |-> Prop3(apiData, "fuel_economy", "extra_urban", "mpg"),
    fuel_economy_urban       |-> Prop3(apiData, "fuel_economy", "urban_cold", "mpg"),
    co2_emission             |-> Prop2(apiData, "co2_emissions_figures", "co2_emission"),
    ved_co2_band             |-> Prop2(apiData, "co2_emissions_figures", "ved_co2_band") ]

\* evaluating the object literal throws when one of its properties does
Throws(literal) ==
  \E object \in { literal } : \E f \in DOMAIN object : object[f] = TypeError

\* cleanRegOf without toUpperCase
cleanRegKeepsCase(registrationNumber) == StripWhitespace(registrationNumber)

\* registrationNumber.replace(/\s+/g, '').toUpperCase()
cleanRegOf(registrationNumber) == ToUpperCase(StripWhitespace(registrationNumber))

\* What the registry call of lookupVehicle can end in:
\*   body      axios resolved; data is the response body
\*   http      axios rejected with a response of that status
\*   noreply   axios rejected without a response (timeout, network error)
Body(data) == [kind |-> "body", data |-> data]

Http(status, data) == [kind |-> "http", status |-> status, data |-> data]

NoReply(code) == [kind |-> "noreply", code |-> code]

\* the value lookupVehicle resolves to: a VehicleData, or Null
lookupVehicle(outcome) ==
  IF outcome.kind = "body"
    THEN IF Prop(outcome.data, "status") # Str("success")
           THEN Null
           ELSE LET vehicleData == vehicleDataOf(Prop(outcome.data, "data"))
                IN  IF Throws(vehicleData) THEN Null ELSE vehicleData
    ELSE Null

\* ------------------------------------------------------------------------
\* The answers of POST /upload.  A response is its HTTP status and its JSON
\* body; a message is the sequence of the parts of its template.
\* ------------------------------------------------------------------------

\* TimestampFormat with a year of four digits only
TimestampFormatLongYear ==
  << Exactly("D", 2), Exactly(".", 1), Exactly("D", 2), Exactly(".", 1),
     Exactly("D", 4), AtLeast("S", 1),
     Between("D", 1, 2), Exactly(":", 1), Exactly("D", 2), Exactly(":", 1),
     Exactly("D", 2) >>

\* /^\d{2}\.\d{2}\.\d{2,4}\s+\d{1,2}:\d{2}:\d{2}$/
TimestampFormat ==
  << Exactly("D", 2), Exactly(".", 1), Exactly("D", 2), Exactly(".", 1),
     Between("D", 2, 4), AtLeast("S", 1),
     Between("D", 1, 2), Exactly(":", 1), Exactly("D", 2), Exactly(":", 1),
     Exactly("D", 2) >>

isTimestampOf(fullText) == Test(TimestampFormat, Trim(fullText))

isShortMeaninglessOf(fullText) == fullText # << >> /\ Len(Trim(fullText)) < 2

\* isMeaningful without the filter of short texts
isMeaningfulKeepsShort(fullText) ==
  /\ fullText # << >>
  /\ Len(fullText) > 0
  /\ ~isTimestampOf(fullText)

\* fullText && fullText.length > 0 && !isTimestamp && !isShortMeaningless
isMeaningful(fullText) ==
  /\ fullText # << >>
  /\ Len(fullText) > 0
  /\ ~isTimestampOf(fullText)
  /\ ~isShortMeaninglessOf(fullText)

\* textAnnotations.map(annotation => annotation.description).join(' | ')
allTextOf(annotations) == Join(annotations, << " ", "|", " " >>)

CommaSpace == << ",", " " >>

\* res.status(500).json({ error: 'Error processing image' })
ErrorResponse ==
  [status |-> 500, body |-> [error |-> "Error processing image"]]

NoTextResponse ==
  [status |-> 200,
   body   |-> [text    |-> << >>,
               message |-> << "No text detected in the image" >>,
               hasText |-> FALSE]]

\* PlatesResponse reporting the first plate only
PlatesResponseFirstOnly(annotations, detectedPlates, vehicleData) ==
  [status |-> 200,
   body   |-> [hasText       |-> TRUE,
               text          |-> annotations,
               fullText      |-> detectedPlates[1],
               allText       |-> allTextOf(annotations),
               licensePlates |-> << detectedPlates[1] >>,
               vehicleData   |-> vehicleData,
               message       |->
                 IF vehicleData # Null
                   THEN << "License plate detected: ", detectedPlates[1],
                           " - Vehicle found!" >>
                   ELSE << "License plate(s) detected: ", detectedPlates[1],
                           " - Vehicle not found in database" >>]]

PlatesResponse(annotations, detectedPlates, vehicleData) ==
  [status |-> 200,
   body   |-> [hasText       |-> TRUE,
               text          |-> annotations,
               fullText      |-> Join(detectedPlates, CommaSpace),
               allText       |-> allTextOf(annotations),
               licensePlates |-> detectedPlates,
               vehicleData   |-> vehicleData,
               message       |->
                 IF vehicleData # Null
                   THEN << "License plate detected: ", detectedPlates[1],
                           " - Vehicle found!" >>
                   ELSE << "License plate(s) detected: ",
                           Join(detectedPlates, CommaSpace),
                           " - Vehicle not found in database" >>]]

NoMeaningfulTextResponse ==
  [status |-> 200,
   body   |-> [text          |-> << >>,
               message       |->
                 << "No meaningful text or license plates detected in the image" >>,
               hasText       |-> FALSE,
               licensePlates |-> << >>]]

GeneralTextResponse(annotations) ==
  [status |-> 200,
   body   |-> [text          |-> annotations,
               fullText      |-> fullTextOf(annotations),
               allText       |-> allTextOf(annotations),
               licensePlates |-> << >>,
               message       |->
                 << "Text detected but no valid UK license plates found" >>,
               hasText       |-> TRUE]]

\* ------------------------------------------------------------------------
\* Inputs: what the OCR collaborator and the registry may answer
\* ------------------------------------------------------------------------

\* the most fragment annotations that follow the full-text annotation
MaxFragments == 3

\* first annotations: a spaced plate, two plates on two lines, a timestamp,
\* a single character, plain text, whitespace only, a plate spaced after its
\* letters and after its digits, the same plate after a word
FullTexts ==
  { << "A","B","1","2"," ","C","D","E" >>,
    << "A","B"," ","1","2"," ","C","D","E" >>,
    << "m","y"," ","A","B"," ","1","2"," ","C","D","E" >>,
    << "A","B","1","2","C","D","E","\n","C","D","1","2","A","B","E" >>,
    << "1","2",".","0","5",".","2","4"," ","1","4",":","3","2",":","1","0" >>,
    << "A" >>,
    << "s","t","o","p" >>,
    << " " >> }

\* fragment annotations: the two halves of a plate, the three parts of a
\* plate, whitespace only, and a lower-case plate with a space inside
Fragments ==
  { << "A","B","1","2" >>,
    << "C","D","E" >>,
    << "A","B" >>,
    << "1","2" >>,
    << " " >>,
    << "a"," ","1" >> }

\* "12.05.24 14:32:10"
TimestampText ==
  << "1","2",".","0","5",".","2","4"," ","1","4",":","3","2",":","1","0" >>

SeqsUpTo(S, n) == UNION { [1 .. k -> S] : k \in 0 .. n }

\* ["YF65CVK plate photo", "YF", "65", "CVK"]
PlatePhotoAnnotations ==
  << << "Y","F","6","5","C","V","K"," ","p","l","a","t","e"," ",
        "p","h","o","t","o" >>,
     << "Y","F" >>, << "6","5" >>, << "C","V","K" >> >>

\* the non-empty textAnnotations arrays the OCR call may resolve to
AnnotationInputs ==
  { << ft >> \o fs : ft \in FullTexts, fs \in SeqsUpTo(Fragments, MaxFragments) }
    \cup { PlatePhotoAnnotations }

\* a registry record with every field of VehicleDatabasesResponse.data
VehicleRecord(make, model) ==
  Obj(("registration number" :> Str("AB12CDE")) @@
      [ vehicle_description |->
          Obj([ year |-> Str("2015"), make |-> Str(make), model |-> Str(model),
                bodystyle |-> Str("SUV"), color |-> Str("Black"),
                engine |-> Str("1.968 cc"), cylinders |-> Str("4"),
                gears |-> Str("6"), fuel_type |-> Str("Diesel") ]),
        vehicle_registration |->
          Obj([ date_first_registered |-> Str("01-12-2015") ]),
        mot_tax_dues |->
          Obj([ mot_due |-> Obj([ status |-> Str("01-12-2024") ]
                                  @@ ("ends on" :> Str("in 3 months"))),
                tax_due |-> Obj([ status |-> Str("01-03-2025") ]
                                  @@ ("ends on" :> Str("in 6 months"))) ]),
        vehicle_performance |->
          Obj([ power |-> Obj([ bhp |-> Str("148 BHP"), kw |-> Str("110 kW") ]),
                max_speed |-> Obj([ mph |-> Str("127 mph") ]) ]),
        fuel_economy |->
          Obj([ combined |-> Obj([ mpg |-> Str("60.1 mpg") ]),
                extra_urban |-> Obj([ mpg |-> Str("67.3 mpg") ]),
                urban_cold |-> Obj([ mpg |-> Str("51.4 mpg") ]) ]),
        co2_emissions_figures |->
          Obj([ co2_emission |-> Str("122 g/km"), ved_co2_band |-> Str("D") ]) ])

Without(record, field) ==
  Obj([k \in (DOMAIN record.obj) \ { field } |-> record.obj[k]])

Success(data) == Body(Obj([status |-> Str("success"), data |-> data]))

AudiQ3 == VehicleRecord("Audi", "Q3 TDI S Line")

\* two found vehicles; a record without an intermediate object; a record
\* without a leaf; a body whose status is not 'success'; HTTP 404; HTTP 500
\* with a body; a timeout; a network error
RegistryOutcomes ==
  { Success(AudiQ3),
    Success(VehicleRecord("Ford", "Fiesta Zetec")),
    Success(Without(AudiQ3, "vehicle_performance")),
    Success(Obj([AudiQ3.obj EXCEPT !["vehicle_description"] =
                   Without(AudiQ3.obj["vehicle_description"], "make")])),
    Body(Obj([status |-> Str("error"), message |-> Str("No data found")])),
    Http(404, Obj([status |-> Str("error")])),
    Http(500, Obj([status |-> Str("error")])),
    NoReply("ECONNABORTED"),
    NoReply("ENOTFOUND") }

\* ------------------------------------------------------------------------
\* POST /upload as a state machine: one request, from its arrival to its
\* response.  The handler is suspended twice: on the OCR call and on the
\* registry call.
\* ------------------------------------------------------------------------

VARIABLES
  pc,             \* where the handler is
  trace,          \* where the handler has been, pc included
  tempFile,       \* the uploaded file: "none", "present" or "deleted"
  caught,         \* what the catch block caught: "none" or the error
  annotations,    \* textAnnotations, once it is known to be non-empty
  detectedPlates, \* the result of extractLicensePlates
  lookups,        \* the registration numbers the registry was asked for
  registry,       \* the outcomes of the registry calls
  vehicleData,    \* the value lookupVehicle resolved to
  responses,      \* the responses sent for the request
  candidate,      \* the matcher alone: its input
  verdict,        \* the matcher alone: its results
  registrationNumber, \* POST /vehicle-lookup: req.body.registrationNumber
  requests,       \* concurrent uploads: the state of each request
  uploads,        \* concurrent uploads: the files of the directory uploads/
  camera,         \* the app: the state of the component MotorDexCamera
  storage,        \* the app: the item 'vehicleCollection' of AsyncStorage
  saves,          \* the app: the calls of saveToCollection
  history         \* the app: the scans made and the vehicles collected

\* the most scans and the most calls of saveToCollection of a run
MaxScans == 2

MaxSaves == 2

\* the state of MotorDexCamera when it is constructed; an image URI is a
\* number, 0 for null; offer is the alert that offers to add a vehicle;
\* uploading is the image of the upload in flight; shown is the list of the
\* collection screen
InitialCamera ==
  [ loaded |-> FALSE, isLoading |-> FALSE, selectedImageUri |-> 0,
    vehicleData |-> Null, licensePlates |-> << >>, showCollection |-> FALSE,
    collectionCount |-> 0, offer |-> Null, uploading |-> 0, shown |-> << >> ]

\* AsyncStorage without the item 'vehicleCollection'
NoItem == [present |-> FALSE, items |-> << >>]

\* the upload of an image that has not been answered
Unanswered == [ok |-> FALSE, status |-> -1]

NoHistory ==
  [ scans |-> 0, results |-> [uri \in 1 .. MaxScans |-> Unanswered],
    collected |-> { } ]

vars ==
  << pc, trace, tempFile, caught, annotations, detectedPlates, lookups, registry,
     vehicleData, responses, candidate, verdict, registrationNumber, requests,
     uploads, camera, storage, saves, history >>

matcherVars == << candidate, verdict >>

\* the variables of the other endpoint and of the concurrent requests
appVars == << camera, storage, saves, history >>

restVars == << registrationNumber, requests, uploads, appVars >>

Init ==
  /\ pc = "Idle"
  /\ trace = << "Idle" >>
  /\ tempFile = "none"
  /\ caught = "none"
  /\ annotations = << >>
  /\ detectedPlates = << >>
  /\ lookups = << >>
  /\ registry = << >>
  /\ vehicleData = Null
  /\ responses = << >>
  /\ candidate = << >>
  /\ verdict = << >>
  /\ registrationNumber = Undefined
  /\ requests = << >>
  /\ uploads = { }
  /\ camera = InitialCamera
  /\ storage = NoItem
  /\ saves = << >>
  /\ history = NoHistory

\* the handler moves on to position
Goto(position) ==
  /\ pc' = position
  /\ trace' = Append(trace, position)

Respond(response) ==
  /\ responses' = Append(responses, response)
  /\ Goto("Responded")

\* the request arrives; multer stored the file when the form had one, and
\* multerReq.file.path throws a TypeError when it had none
Upload(hasFile) ==
  /\ pc = "Idle"
  /\ IF hasFile
       THEN /\ tempFile' = "present"
            /\ Goto("Received")
            /\ UNCHANGED << caught, responses >>
       ELSE /\ caught' = "TypeError"
            /\ Respond(ErrorResponse)
            /\ UNCHANGED tempFile
  /\ UNCHANGED << annotations, detectedPlates, lookups, registry, vehicleData,
                  matcherVars, restVars >>

\* the OCR call is rejected: the catch block answers
OcrFails ==
  /\ pc = "Received"
  /\ caught' = "AxiosError"
  /\ Respond(ErrorResponse)
  /\ UNCHANGED << tempFile, annotations, detectedPlates, lookups, registry,
                  vehicleData, matcherVars, restVars >>

\* OcrReturnsNothing without the test of textAnnotations: reading the first
\* annotation throws, and the catch block answers
OcrReturnsNothingThrows ==
  /\ pc = "Received"
  /\ tempFile' = "deleted"
  /\ caught' = "TypeError"
  /\ Respond(ErrorResponse)
  /\ UNCHANGED << annotations, detectedPlates, lookups, registry,
                  vehicleData, matcherVars, restVars >>

\* the OCR call resolves with no textAnnotations, or with an empty array
OcrReturnsNothing ==
  /\ pc = "Received"
  /\ tempFile' = "deleted"
  /\ Respond(NoTextResponse)
  /\ UNCHANGED << caught, annotations, detectedPlates, lookups, registry,
                  vehicleData, matcherVars, restVars >>

\* the OCR call resolves with annotations: the plates are extracted
OcrReturns(textAnnotations) ==
  /\ pc = "Received"
  /\ tempFile' = "deleted"
  /\ annotations' = textAnnotations
  /\ detectedPlates' = extractLicensePlates(textAnnotations)
  /\ Goto("Extracted")
  /\ UNCHANGED << caught, lookups, registry, vehicleData, responses,
                  matcherVars, restVars >>

\* BranchOnPlates with a lookup for every detected plate
BranchOnPlatesLookupAll ==
  /\ pc = "Extracted"
  /\ IF Len(detectedPlates) > 0
       THEN /\ lookups' = lookups \o
                 [i \in DOMAIN detectedPlates |-> cleanRegOf(detectedPlates[i])]
            /\ Goto("LookingUp")
       ELSE /\ Goto("NoCandidates")
            /\ UNCHANGED lookups
  /\ UNCHANGED << tempFile, caught, annotations, detectedPlates, registry,
                  vehicleData, responses, matcherVars, restVars >>

\* if (detectedPlates.length > 0): the registry is asked for the first plate
BranchOnPlates ==
  /\ pc = "Extracted"
  /\ IF Len(detectedPlates) > 0
       THEN /\ lookups' = Append(lookups, cleanRegOf(detectedPlates[1]))
            /\ Goto("LookingUp")
       ELSE /\ Goto("NoCandidates")
            /\ UNCHANGED lookups
  /\ UNCHANGED << tempFile, caught, annotations, detectedPlates, registry,
                  vehicleData, responses, matcherVars, restVars >>

\* the registry call ends and lookupVehicle resolves
LookupReturns(outcome) ==
  /\ pc = "LookingUp"
  /\ registry' = Append(registry, outcome)
  /\ vehicleData' = lookupVehicle(outcome)
  /\ Goto("LookupReturned")
  /\ UNCHANGED << tempFile, caught, annotations, detectedPlates, lookups,
                  responses, matcherVars, restVars >>

\* RespondWithPlates without its return statement: the handler goes on to
\* the code for a request without plates
RespondWithPlatesNoReturn ==
  /\ pc = "LookupReturned"
  /\ responses' =
       Append(responses, PlatesResponse(annotations, detectedPlates, vehicleData))
  /\ Goto("NoCandidates")
  /\ UNCHANGED << tempFile, caught, annotations, detectedPlates, lookups,
                  registry, vehicleData, matcherVars, restVars >>

\* res.json of the branch with plates
RespondWithPlates ==
  /\ pc = "LookupReturned"
  /\ Respond(PlatesResponse(annotations, detectedPlates, vehicleData))
  /\ UNCHANGED << tempFile, caught, annotations, detectedPlates, lookups,
                  registry, vehicleData, matcherVars, restVars >>

\* no plate: the general text when it is meaningful, else nothing
RespondWithoutPlates ==
  /\ pc = "NoCandidates"
  /\ IF isMeaningful(fullTextOf(annotations))
       THEN Respond(GeneralTextResponse(annotations))
       ELSE Respond(NoMeaningfulTextResponse)
  /\ UNCHANGED << tempFile, caught, annotations, detectedPlates, lookups,
                  registry, vehicleData, matcherVars, restVars >>

Next ==
  \/ \E hasFile \in BOOLEAN : Upload(hasFile)
  \/ OcrFails
  \/ OcrReturnsNothing
  \/ pc = "Received" /\ \E textAnnotations \in AnnotationInputs :
                           OcrReturns(textAnnotations)
  \/ BranchOnPlates
  \/ pc = "LookingUp" /\ \E outcome \in RegistryOutcomes :
                            LookupReturns(outcome)
  \/ RespondWithPlates
  \/ RespondWithoutPlates

Spec == Init /\ [][Next]_vars

\* every collaborator call returns or fails, and the handler runs on
FairSpec == Spec /\ WF_vars(Next)

\* ------------------------------------------------------------------------
\* POST /vehicle-lookup: the registry asked directly.  The server, idle,
\* takes a request of either endpoint.
\* ------------------------------------------------------------------------

\* the longest registration number a request carries
MaxRegistrationLen == 3

\* a lower-case letter, an upper-case letter, a digit, a space
RegistrationAlphabet == { "a", "B", "1", " " }

RegistrationTexts == SeqsUpTo(RegistrationAlphabet, MaxRegistrationLen)

Num(n) == [num |-> n]

\* req.body.registrationNumber: absent, a string, or a number
RegistrationInputs ==
  { Undefined, Num(0), Num(7) } \cup { Str(text) : text \in RegistrationTexts }

\* !value
Falsy(value) == value \in { Undefined, Null, Str(<< >>), Num(0) }

\* res.status(400).json({ error: 'Registration number is required' })
RequiredResponse ==
  [status |-> 400, body |-> [error |-> "Registration number is required"]]

VehicleFoundResponse(number, data) ==
  [status |-> 200,
   body   |-> [success     |-> TRUE,
               vehicleData |-> data,
               message     |-> << "Vehicle details found for ", number >>]]

VehicleNotFoundResponse(number) ==
  [status |-> 404,
   body   |-> [success |-> FALSE,
               error   |-> "Vehicle not found",
               message |->
                 << "No vehicle found for registration number: ", number >>]]

\* the request arrives: without a registration number it is refused; with
\* one, lookupVehicle cleans it and asks the registry, and resolves to null
\* at once when the number is no string (replace is not a function)
VehicleLookup(number) ==
  /\ pc = "Idle"
  /\ registrationNumber' = number
  /\ IF Falsy(number)
       THEN /\ Respond(RequiredResponse)
            /\ UNCHANGED << lookups, vehicleData >>
       ELSE IF "str" \in DOMAIN number
         THEN /\ lookups' = Append(lookups, cleanRegOf(number.str))
              /\ Goto("DirectLookingUp")
              /\ UNCHANGED << vehicleData, responses >>
         ELSE /\ vehicleData' = Null
              /\ Goto("DirectLookupReturned")
              /\ UNCHANGED << lookups, responses >>
  /\ UNCHANGED << tempFile, caught, annotations, detectedPlates, registry,
                  matcherVars, requests, uploads, appVars >>

\* the registry call ends and lookupVehicle resolves
VehicleLookupReturns(outcome) ==
  /\ pc = "DirectLookingUp"
  /\ registry' = Append(registry, outcome)
  /\ vehicleData' = lookupVehicle(outcome)
  /\ Goto("DirectLookupReturned")
  /\ UNCHANGED << tempFile, caught, annotations, detectedPlates, lookups,
                  responses, matcherVars, restVars >>

\* if (vehicleData) ... else ...
VehicleLookupResponds ==
  /\ pc = "DirectLookupReturned"
  /\ IF vehicleData # Null
       THEN Respond(VehicleFoundResponse(registrationNumber, vehicleData))
       ELSE Respond(VehicleNotFoundResponse(registrationNumber))
  /\ UNCHANGED << tempFile, caught, annotations, detectedPlates, lookups,
                  registry, vehicleData, matcherVars, restVars >>

NextVehicleLookup ==
  \/ \E number \in RegistrationInputs : VehicleLookup(number)
  \/ pc = "DirectLookingUp" /\ \E outcome \in RegistryOutcomes :
                                  VehicleLookupReturns(outcome)
  \/ VehicleLookupResponds

NextServer == Next \/ NextVehicleLookup

SpecServer == Init /\ [][NextServer]_vars

\* ------------------------------------------------------------------------
\* Concurrent uploads.  The handler of a request runs from one await to the
\* next without interruption; between them the handlers of other requests
\* run.  The requests share the directory uploads/ and nothing else.
\* ------------------------------------------------------------------------

\* how many requests are in flight together
NumRequests == 2

RequestIds == 1 .. NumRequests

\* the name multer gives the stored file: a fresh one for every upload
fileNameShared(id) == 1

fileNameOf(id) == id

\* what the OCR call of a concurrent request may resolve to
ConcurrentAnnotations ==
  { << >>,
    << << "A","B","1","2"," ","C","D","E" >> >>,
    << << "s","t","o","p" >>, << "A","B","1","2" >>, << "C","D","E" >> >>,
    << << "s","t","o","p" >> >>,
    << TimestampText >> }

ConcurrentOutcomes ==
  { Success(AudiQ3), Http(404, Obj([status |-> Str("error")])),
    NoReply("ECONNABORTED") }

uploadVars ==
  << pc, trace, tempFile, caught, annotations, detectedPlates, lookups, registry,
     vehicleData, responses >>

NewRequest ==
  [ pc |-> "Idle", hasFile |-> FALSE, file |-> 0, ocr |-> "none",
    annotations |-> << >>, detectedPlates |-> << >>, lookups |-> << >>,
    registry |-> << >>, vehicleData |-> Null, responses |-> << >>,
    overlapped |-> FALSE ]

InitConcurrent ==
  /\ pc = "Idle"
  /\ trace = << "Idle" >>
  /\ tempFile = "none"
  /\ caught = "none"
  /\ annotations = << >>
  /\ detectedPlates = << >>
  /\ lookups = << >>
  /\ registry = << >>
  /\ vehicleData = Null
  /\ responses = << >>
  /\ candidate = << >>
  /\ verdict = << >>
  /\ registrationNumber = Undefined
  /\ requests = [id \in RequestIds |-> NewRequest]
  /\ uploads = { }
  /\ camera = InitialCamera
  /\ storage = NoItem
  /\ saves = << >>
  /\ history = NoHistory

InFlight(request) == request.pc \notin { "Idle", "Responded" }

\* the request is answered
Answered(request, response) ==
  [request EXCEPT !.pc = "Responded", !.responses = Append(@, response)]

\* the request arrives: multer stores its file, and the handler reads it
\* and sends it to the OCR service; without a file, or when the file cannot
\* be read, the catch block answers
ConcurrentUpload(id, hasFile) ==
  /\ requests[id].pc = "Idle"
  /\ LET name == fileNameOf(id)
         meets == \E other \in RequestIds \ { id } : InFlight(requests[other])
         arrived == [requests[id] EXCEPT !.hasFile = hasFile,
                                         !.overlapped = meets]
     IN  /\ uploads' = IF hasFile THEN uploads \cup { name } ELSE uploads
         /\ requests' =
              [other \in RequestIds |->
                 IF other = id
                   THEN IF hasFile
                          THEN [arrived EXCEPT !.pc = "Received", !.file = name]
                          ELSE Answered(arrived, ErrorResponse)
                 ELSE IF InFlight(requests[other])
                   THEN [requests[other] EXCEPT !.overlapped = TRUE]
                   ELSE requests[other]]
  /\ UNCHANGED << uploadVars, matcherVars, registrationNumber, appVars >>

\* the OCR call of the request is rejected
ConcurrentOcrFails(id) ==
  /\ requests[id].pc = "Received"
  /\ requests' =
       [requests EXCEPT ![id] = Answered([@ EXCEPT !.ocr = "failed"], ErrorResponse)]
  /\ UNCHANGED << uploads, uploadVars, matcherVars, registrationNumber, appVars >>

\* what the handler does from the return of the OCR call to its next await
\* or to its response, the file being deleted already
AfterOcr(request, textAnnotations) ==
  IF textAnnotations = << >> THEN Answered(request, NoTextResponse)
  ELSE LET plates == extractLicensePlates(textAnnotations)
           known == [request EXCEPT !.annotations = textAnnotations,
                                    !.detectedPlates = plates]
       IN  IF Len(plates) > 0
             THEN [known EXCEPT !.pc = "LookingUp",
                                !.lookups = Append(@, cleanRegOf(plates[1]))]
           ELSE IF isMeaningful(fullTextOf(textAnnotations))
             THEN Answered(known, GeneralTextResponse(textAnnotations))
             ELSE Answered(known, NoMeaningfulTextResponse)

\* the OCR call of the request resolves: the file is deleted (unlinkSync
\* throws when it is not there), the plates are extracted, and the registry
\* is asked or the request answered
ConcurrentOcrReturns(id, textAnnotations) ==
  /\ requests[id].pc = "Received"
  /\ LET read == [requests[id] EXCEPT !.ocr = "returned"]
     IN  IF requests[id].file \in uploads
           THEN /\ uploads' = uploads \ { requests[id].file }
                /\ requests' =
                     [requests EXCEPT ![id] = AfterOcr(read, textAnnotations)]
           ELSE /\ requests' =
                     [requests EXCEPT ![id] =
                        Answered([read EXCEPT !.annotations = textAnnotations],
                                 ErrorResponse)]
                /\ UNCHANGED uploads
  /\ UNCHANGED << uploadVars, matcherVars, registrationNumber, appVars >>

\* the registry call of the request ends, and the request is answered
ConcurrentLookupReturns(id, outcome) ==
  /\ requests[id].pc = "LookingUp"
  /\ LET found == lookupVehicle(outcome)
         resolved == [requests[id] EXCEPT !.registry = Append(@, outcome),
                                          !.vehicleData = found]
     IN  requests' =
           [requests EXCEPT ![id] =
              Answered(resolved,
                       PlatesResponse(resolved.annotations,
                                      resolved.detectedPlates, found))]
  /\ UNCHANGED << uploads, uploadVars, matcherVars, registrationNumber, appVars >>

NextConcurrent ==
  \E id \in RequestIds :
    \/ \E hasFile \in BOOLEAN : ConcurrentUpload(id, hasFile)
    \/ ConcurrentOcrFails(id)
    \/ \E textAnnotations \in ConcurrentAnnotations :
         ConcurrentOcrReturns(id, textAnnotations)
    \/ \E outcome \in ConcurrentOutcomes : ConcurrentLookupReturns(id, outcome)

SpecConcurrent == InitConcurrent /\ [][NextConcurrent]_vars

\* ------------------------------------------------------------------------
\* The app: the camera screen, the collection screen and the collection in
\* AsyncStorage.  Of a VehicleData the app uses make and model.  A call of
\* saveToCollection is suspended twice: on getItem and on setItem.
\* ------------------------------------------------------------------------

Vehicle(make, model) == [make |-> make, model |-> model]

\* an Audi Q3, the same in other letter cases, and a Ka
AppVehicles ==
  { Vehicle(<< "A","u" >>, << "Q","3" >>),
    Vehicle(<< "A","U" >>, << "q","3" >>),
    Vehicle(<< "K","a" >>, << "X" >>) }

\* fullModelOf without toLowerCase
fullModelKeepsCase(vehicle) == vehicle.make \o << " " >> \o vehicle.model

\* `${vehicle.make} ${vehicle.model}`.toLowerCase()
fullModelOf(vehicle) == ToLowerCase(vehicle.make \o << " " >> \o vehicle.model)

\* what POST /upload may give the app: a response body, or a failure
Reply(hasText, licensePlates, found) ==
  [ok |-> TRUE,
   data |-> [hasText |-> hasText, licensePlates |-> licensePlates,
             vehicleData |-> found]]

Failure(status) == [ok |-> FALSE, status |-> status]

\* plates with a vehicle, plates without, general text, no text, HTTP 500,
\* no answer
UploadReplies ==
  { Reply(TRUE, << "AB12CDE" >>, found) : found \in AppVehicles }
    \cup { Reply(TRUE, << "AB12CDE" >>, Null), Reply(TRUE, << >>, Null),
           Reply(FALSE, << >>, Null), Failure(500), Failure(0) }

\* loadCollectionCount, run once when the component is mounted
Mount ==
  /\ ~camera.loaded
  /\ camera' = [camera EXCEPT
                  !.loaded = TRUE,
                  !.collectionCount =
                    IF storage.present THEN Len(storage.items) ELSE @]
  /\ UNCHANGED << storage, saves, history >>
  /\ UNCHANGED << uploadVars, matcherVars, registrationNumber, requests, uploads >>

\* takePicture or pickImage: a new image is selected and uploaded
Scan ==
  /\ ~camera.isLoading
  /\ ~camera.showCollection
  /\ camera.offer = Null
  /\ history.scans < MaxScans
  /\ LET uri == history.scans + 1
     IN  /\ camera' = [camera EXCEPT !.isLoading = TRUE,
                                     !.selectedImageUri = uri,
                                     !.uploading = uri]
         /\ history' = [history EXCEPT !.scans = uri]
  /\ UNCHANGED << storage, saves >>
  /\ UNCHANGED << uploadVars, matcherVars, registrationNumber, requests, uploads >>

\* sendImageToBackend from the answer of the upload on, and the finally of
\* its caller: the results are set from a response with text, reset by
\* one without, and left as they are by a failure
ScanEnds(reply) ==
  /\ camera.uploading # 0
  /\ camera' =
       IF reply.ok /\ reply.data.hasText
         THEN [camera EXCEPT
                 !.licensePlates = reply.data.licensePlates,
                 !.vehicleData = reply.data.vehicleData,
                 !.offer =
                   IF Len(reply.data.licensePlates) > 0
                      /\ reply.data.vehicleData # Null
                     THEN [vehicle |-> reply.data.vehicleData,
                           imageUri |-> camera.uploading]
                     ELSE @,
                 !.isLoading = FALSE, !.uploading = 0]
       ELSE IF reply.ok
         THEN [camera EXCEPT
                 !.licensePlates = << >>, !.vehicleData = Null,
                 !.selectedImageUri = 0,
                 !.isLoading = FALSE, !.uploading = 0]
         ELSE [camera EXCEPT !.isLoading = FALSE, !.uploading = 0]
  /\ history' = [history EXCEPT !.results[camera.uploading] = reply]
  /\ UNCHANGED << storage, saves >>
  /\ UNCHANGED << uploadVars, matcherVars, registrationNumber, requests, uploads >>

\* a call of saveToCollection, up to its getItem
NewSave(vehicle, imageUri) ==
  [ pc |-> "reading", vehicle |-> vehicle, imageUri |-> imageUri,
    read |-> << >>, collection |-> << >>, result |-> FALSE ]

\* 'Add to Collection' of the alert: the vehicle and the image of the scan
OfferAdd ==
  /\ camera.offer # Null
  /\ Len(saves) < MaxSaves
  /\ saves' = Append(saves, NewSave(camera.offer.vehicle, camera.offer.imageUri))
  /\ camera' = [camera EXCEPT !.offer = Null]
  /\ UNCHANGED << storage, history >>
  /\ UNCHANGED << uploadVars, matcherVars, registrationNumber, requests, uploads >>

\* 'Skip' of the alert
OfferSkip ==
  /\ camera.offer # Null
  /\ camera' = [camera EXCEPT !.offer = Null]
  /\ UNCHANGED << storage, saves, history >>
  /\ UNCHANGED << uploadVars, matcherVars, registrationNumber, requests, uploads >>

\* the button 'Add to Collection' of the results: the vehicle and the image
\* of the state
PressAdd ==
  /\ ~camera.showCollection
  /\ camera.offer = Null
  /\ camera.vehicleData # Null
  /\ Len(camera.licensePlates) > 0
  /\ camera.selectedImageUri # 0
  /\ Len(saves) < MaxSaves
  /\ saves' = Append(saves, NewSave(camera.vehicleData, camera.selectedImageUri))
  /\ UNCHANGED << camera, storage, history >>
  /\ UNCHANGED << uploadVars, matcherVars, registrationNumber, requests, uploads >>

\* the item of the collection made of a vehicle
CollectedVehicle(vehicle, imageUri) ==
  [ make |-> vehicle.make, model |-> vehicle.model, imageUri |-> imageUri,
    fullModel |-> fullModelOf(vehicle) ]

\* getItem resolves: the call returns false for a duplicate, and else asks
\* for the list it read, with the new item, to be stored
SaveReads(k) ==
  /\ saves[k].pc = "reading"
  /\ LET collection == storage.items
         fullModel == fullModelOf(saves[k].vehicle)
         isDuplicate ==
           \E i \in DOMAIN collection : collection[i].fullModel = fullModel
     IN  saves' =
           [saves EXCEPT ![k] =
              IF isDuplicate
                THEN [@ EXCEPT !.pc = "done", !.read = collection,
                               !.result = FALSE]
                ELSE [@ EXCEPT !.pc = "writing", !.read = collection,
                               !.collection =
                                 Append(collection,
                                        CollectedVehicle(saves[k].vehicle, saves[k].imageUri))]]
  /\ UNCHANGED << camera, storage, history >>
  /\ UNCHANGED << uploadVars, matcherVars, registrationNumber, requests, uploads >>

\* setItem resolves: the list is stored, the count is set to its length and
\* the call returns true
SaveWrites(k) ==
  /\ saves[k].pc = "writing"
  /\ storage' = [present |-> TRUE, items |-> saves[k].collection]
  /\ camera' = [camera EXCEPT !.collectionCount = Len(saves[k].collection)]
  /\ saves' = [saves EXCEPT ![k] = [@ EXCEPT !.pc = "done", !.result = TRUE]]
  /\ history' = [history EXCEPT
                   !.collected = @ \cup { fullModelOf(saves[k].vehicle) }]
  /\ UNCHANGED << uploadVars, matcherVars, registrationNumber, requests, uploads >>

\* 'My Collection': VehicleCollection is mounted and loads the collection
OpenCollection ==
  /\ ~camera.showCollection
  /\ camera.offer = Null
  /\ camera' = [camera EXCEPT !.showCollection = TRUE,
                              !.shown = storage.items]
  /\ UNCHANGED << storage, saves, history >>
  /\ UNCHANGED << uploadVars, matcherVars, registrationNumber, requests, uploads >>

\* 'Clear' of clearCollection, confirmed
ClearCollection ==
  /\ camera.showCollection
  /\ storage' = NoItem
  /\ camera' = [camera EXCEPT !.shown = << >>]
  /\ history' = [history EXCEPT !.collected = { }]
  /\ UNCHANGED saves
  /\ UNCHANGED << uploadVars, matcherVars, registrationNumber, requests, uploads >>

\* onBack
Back ==
  /\ camera.showCollection
  /\ camera' = [camera EXCEPT !.showCollection = FALSE, !.shown = << >>]
  /\ UNCHANGED << storage, saves, history >>
  /\ UNCHANGED << uploadVars, matcherVars, registrationNumber, requests, uploads >>

\* the app is closed and opened again: the component is constructed anew,
\* the calls in flight are gone, and AsyncStorage is as it was
Restart ==
  /\ camera.loaded
  /\ camera' = InitialCamera
  /\ saves' = << >>
  /\ UNCHANGED << storage, history >>
  /\ UNCHANGED << uploadVars, matcherVars, registrationNumber, requests, uploads >>

NextApp ==
  \/ Mount
  \/ Scan
  \/ \E reply \in UploadReplies : ScanEnds(reply)
  \/ OfferAdd
  \/ OfferSkip
  \/ PressAdd
  \/ \E k \in DOMAIN saves : SaveReads(k)
  \/ \E k \in DOMAIN saves : SaveWrites(k)
  \/ OpenCollection
  \/ ClearCollection
  \/ Back
  \/ Restart

SpecApp == Init /\ [][NextApp]_vars

\* ------------------------------------------------------------------------
\* The matcher alone: isValidUKLicensePlate applied to one string
\* ------------------------------------------------------------------------

\* the longest string handed to the matcher
MaxCandidateLen == 7

\* an upper-case letter, a lower-case letter, a digit, a space, punctuation
MatcherAlphabet == { "A", "b", "7", " ", "-" }

InitMatcher ==
  /\ pc = "Idle"
  /\ trace = << "Idle" >>
  /\ tempFile = "none"
  /\ caught = "none"
  /\ annotations = << >>
  /\ detectedPlates = << >>
  /\ lookups = << >>
  /\ registry = << >>
  /\ vehicleData = Null
  /\ responses = << >>
  /\ candidate \in SeqsUpTo(MatcherAlphabet, MaxCandidateLen)
  /\ verdict = << >>
  /\ registrationNumber = Undefined
  /\ requests = << >>
  /\ uploads = { }
  /\ camera = InitialCamera
  /\ storage = NoItem
  /\ saves = << >>
  /\ history = NoHistory

Validate ==
  /\ verdict = << >>
  /\ verdict' = << isValidUKLicensePlate(candidate) >>
  /\ UNCHANGED << pc, trace, tempFile, caught, annotations, detectedPlates, lookups,
                  registry, vehicleData, responses, candidate, restVars >>

NextMatcher == Validate

SpecMatcher == InitMatcher /\ [][NextMatcher]_vars

\* ------------------------------------------------------------------------
\* Properties of the request
\* ------------------------------------------------------------------------

Responded == pc = "Responded"

\* the terms of the design for how a registry call ended: a confirmed
\* absence (HTTP 404, or a body whose status is not 'success'), a record
\* that cannot be mapped, or a failure of the call
IsAbsence(outcome) ==
  \/ outcome.kind = "http" /\ outcome.status = 404
  \/ outcome.kind = "body" /\ Prop(outcome.data, "status") # Str("success")

IsMappingFailure(outcome) ==
  /\ outcome.kind = "body"
  /\ Prop(outcome.data, "status") = Str("success")
  /\ Throws(vehicleDataOf(Prop(outcome.data, "data")))

IsLookupFailure(outcome) ==
  \/ outcome.kind = "noreply"
  \/ outcome.kind = "http" /\ outcome.status >= 500
  \/ IsMappingFailure(outcome)

\* C1: the registry is asked at most once per request: once, for the first
\* detected plate, when there is a plate, and never when there is none; a
\* failed lookup is not repeated and the other plates are not looked up.
C1_AtMostOneLookup ==
  /\ Len(lookups) <= 1
  /\ Len(registry) <= Len(lookups)
  /\ pc \in { "LookingUp", "LookupReturned" } => Len(lookups) = 1
  /\ Responded =>
       lookups = IF detectedPlates = << >> THEN << >>
                 ELSE << detectedPlates[1] >>

\* a request with several plates whose only lookup failed has responded
C1_Witness ==
  /\ Responded
  /\ Len(detectedPlates) > 1
  /\ Len(lookups) = 1
  /\ Len(registry) = 1
  /\ IsLookupFailure(registry[1])

\* C2 (as claimed): a lookup that failed gives an outcome and a response
\* that differ from those of a confirmed absence.
C2_FailureDistinctFromAbsence ==
  (Responded /\ registry # << >> /\ IsLookupFailure(registry[1])) =>
    \A absent \in { o \in RegistryOutcomes : IsAbsence(o) } :
      /\ vehicleData # lookupVehicle(absent)
      /\ responses[1] #
           PlatesResponse(annotations, detectedPlates, lookupVehicle(absent))

IsErrorPath ==
  \/ caught # "none"
  \/ registry # << >> /\ IsLookupFailure(registry[1])

\* C3 (as claimed): the response of every error path (no file, OCR failure,
\* registry failure, mapping failure) carries hasText, licensePlates and
\* message.
C3_ErrorPathsWellFormed ==
  (Responded /\ IsErrorPath) =>
    { "hasText", "licensePlates", "message" } \subseteq DOMAIN responses[1].body

\* the state of the design's state machine that position stands for
PhaseOf(position) ==
  IF position = "LookupReturned"
    THEN IF vehicleData # Null THEN "Found"
         ELSE IF IsAbsence(registry[1]) THEN "NotFound"
         ELSE "LookupFailed"
    ELSE position

\* the states of the design's state machine the request went through
Phases == [i \in DOMAIN trace |-> PhaseOf(trace[i])]

LookedUp == { "Found", "NotFound", "LookupFailed" }

MachineEdges ==
  { << "Idle", "Received" >>, << "Received", "Extracted" >>,
    << "Extracted", "NoCandidates" >>, << "Extracted", "LookingUp" >>,
    << "NoCandidates", "Responded" >> }
    \cup { << "LookingUp", p >> : p \in LookedUp }
    \cup { << p, "Responded" >> : p \in LookedUp }

\* every move of the request so far is an edge of E
MovesAlong(E) ==
  \A i \in 1 .. Len(Phases) - 1 : << Phases[i], Phases[i + 1] >> \in E

\* C4 (as claimed): a request moves only along Received -> Extracted ->
\* {NoCandidates | LookingUp} -> {Found | NotFound | LookupFailed} ->
\* Responded.
C4_OnlyAlongMachine == MovesAlong(MachineEdges)

\* the answers given before extraction: no upload file, a failed OCR call,
\* no text
EarlyAnswers == { << "Idle", "Responded" >>, << "Received", "Responded" >> }

\* what holds of a request at every moment
MachineSafety ==
  /\ trace[Len(trace)] = pc
  /\ MovesAlong(MachineEdges \cup EarlyAnswers)
  /\ lookups # << >> =>
       /\ pc \in { "LookingUp", "LookupReturned", "Responded" }
       /\ \E i \in DOMAIN trace : trace[i] = "Extracted"
       /\ detectedPlates # << >>
  /\ pc = "NoCandidates" => lookups = << >>
  /\ (Responded /\ detectedPlates = << >>) => lookups = << >>
  /\ Len(responses) = IF Responded THEN 1 ELSE 0
  /\ \A i \in 1 .. Len(trace) - 1 : trace[i] # "Responded"

\* C4 (amended): a request moves only along the machine, or answers at once
\* from Idle or Received; the lookup starts only after extraction, and never
\* without a plate; exactly one response is sent, on reaching Responded;
\* nothing follows Responded; and every request reaches Responded.
C4_Machine ==
  /\ []MachineSafety
  /\ [][~Responded]_vars
  /\ (pc # "Idle") ~> Responded

\* a request went through a lookup that failed, and has responded
C4_Witness ==
  /\ Responded
  /\ registry # << >>
  /\ vehicleData = Null
  /\ ~IsAbsence(registry[1])
  /\ Len(responses) = 1

\* ------------------------------------------------------------------------
\* Properties of the matcher and of the extraction
\* ------------------------------------------------------------------------

\* how many characters of s, from position i on, are in a row in S
RECURSIVE Run(_, _, _)
Run(s, i, S) ==
  IF i <= Len(s) /\ s[i] \in S THEN 1 + Run(s, i + 1, S) ELSE 0

\* s as << l, d, t >>: l letters, then d digits, then t letters, when s is
\* nothing else
ShapeOf(s) ==
  LET l == Run(s, 1, UpperChars)
      d == Run(s, l + 1, DigitChars)
      t == Run(s, l + d + 1, UpperChars)
  IN  IF l + d + t = Len(s) THEN << l, d, t >> ELSE << >>

\* 2+2+3; 1 letter, 1-3 digits, 3 letters; 3 letters, 1-3 digits, 1 letter;
\* 1-3 letters and 1-4 digits
FullShapes ==
  { << 2, 2, 3 >> }
    \cup { << 1, d, 3 >> : d \in 1 .. 3 }
    \cup { << 3, d, 1 >> : d \in 1 .. 3 }
    \cup { << l, d, 0 >> : l \in 1 .. 3, d \in 1 .. 4 }

\* 2 letters and 2 digits; 3 letters
PartialShapes == { << 2, 2, 0 >>, << 3, 0, 0 >> }

IsCurrentFormat(s) ==
  /\ Len(s) = 7
  /\ \A i \in { 1, 2, 5, 6, 7 } : s[i] \in UpperChars
  /\ \A i \in { 3, 4 } : s[i] \in DigitChars

\* C5: the matcher answers for every string, and answers true exactly when
\* the normalized string has one of the six shapes; true for every string
\* of the current format, false for every string shorter than 2 and for
\* every string of digits; the special case for 7 characters and more
\* changes nothing.
C5_MatcherShapes ==
  verdict # << >> =>
    /\ verdict[1] \in BOOLEAN
    /\ verdict[1] = (ShapeOf(cleanTextOf(candidate)) \in FullShapes \cup PartialShapes)
    /\ IsCurrentFormat(candidate) => verdict[1]
    /\ Len(candidate) < 2 => ~verdict[1]
    /\ (\A i \in DOMAIN candidate : candidate[i] \in DigitChars) => ~verdict[1]
    /\ verdict[1] = \E k \in DOMAIN patterns : Test(patterns[k], cleanTextOf(candidate))

\* the matcher accepted a string of the current format
C5_Witness ==
  /\ verdict = << TRUE >>
  /\ IsCurrentFormat(candidate)

\* a plate that has a partial shape and no full one
OnlyPartial(plate) ==
  /\ ShapeOf(plate) \in PartialShapes
  /\ ShapeOf(plate) \notin FullShapes

\* C6 (as claimed): no plate of the extracted list is only a partial
\* fragment.
C6_NoPartialSurfaced ==
  \A i \in DOMAIN detectedPlates : ~OnlyPartial(detectedPlates[i])

Range(xs) == { xs[i] : i \in DOMAIN xs }

\* the position of the first occurrence of x in xs
FirstIndex(xs, x) == CHOOSE i \in DOMAIN xs : xs[i] = x /\ \A j \in 1 .. i - 1 : xs[j] # x

\* the first of the four strategies that produces plate
StrategyOf(as, plate) ==
  CASE plate \in Range(Method1(as)) -> 1
    [] plate \in Range(Method2(as)) -> 2
    [] plate \in Range(Method3(as)) -> 3
    [] plate \in Range(Method4(as)) -> 4

\* extraction has run
Extracted == annotations # << >>

\* extraction has just returned its list
JustExtracted == pc = "Extracted"

\* C7: the extracted list has no duplicates, holds exactly the candidates
\* of the four strategies, and is in first-seen order: by strategy (full
\* text, single fragment, pair, triple), each plate where its earliest
\* producer put it; deduplicating it again changes nothing.
C7_FirstSeenOrder ==
  JustExtracted =>
    LET pushed == pushedPlates(annotations)
    IN  /\ \A i, j \in DOMAIN detectedPlates :
              i # j => detectedPlates[i] # detectedPlates[j]
        /\ Range(detectedPlates) = Range(pushed)
        /\ \A i, j \in DOMAIN detectedPlates :
              i < j =>
                /\ FirstIndex(pushed, detectedPlates[i])
                     < FirstIndex(pushed, detectedPlates[j])
                /\ StrategyOf(annotations, detectedPlates[i])
                     <= StrategyOf(annotations, detectedPlates[j])
        /\ Dedupe(detectedPlates) = detectedPlates

\* each strategy is the first producer of some plate, and some plate was
\* produced more than once
C7_Witness ==
  /\ JustExtracted
  /\ \A k \in 1 .. 4 :
       \E i \in DOMAIN detectedPlates :
         StrategyOf(annotations, detectedPlates[i]) = k
  /\ Len(pushedPlates(annotations)) > Len(detectedPlates)

YF65CVK == << "Y","F","6","5","C","V","K" >>

\* C8 (as claimed): for ["YF65CVK plate photo", "YF", "65", "CVK"] the full
\* text and the three fragments both produce "YF65CVK", and the extracted
\* list is that single entry.
C8_PlatePhoto ==
  annotations = PlatePhotoAnnotations =>
    /\ YF65CVK \in Range(Method1(annotations))
    /\ YF65CVK \in Range(Method4(annotations))
    /\ detectedPlates = << YF65CVK >>

NoCandidateAnswer ==
  Responded /\ Extracted /\ detectedPlates = << >>

\* C9 (as claimed): a request with annotations and no candidate is answered
\* without a lookup, with no plates, no vehicle and the text of the first
\* annotation as fullText.
C9_GeneralTextSurfaced ==
  NoCandidateAnswer =>
    /\ lookups = << >>
    /\ responses[1].status = 200
    /\ responses[1].body.licensePlates = << >>
    /\ "vehicleData" \notin DOMAIN responses[1].body
    /\ "fullText" \in DOMAIN responses[1].body
    /\ responses[1].body.fullText = Trim(annotations[1])

\* C9 (amended): such a request is answered without a lookup, with no plates
\* and no vehicle; when the trimmed text of the first annotation has two
\* characters or more and is not a timestamp, it is the fullText of the
\* response and hasText is true; otherwise the response has no fullText,
\* an empty text and hasText false.
C9_GeneralTextUnlessFiltered ==
  NoCandidateAnswer =>
    LET body == responses[1].body
        first == Trim(annotations[1])
    IN  /\ lookups = << >>
        /\ responses[1].status = 200
        /\ body.licensePlates = << >>
        /\ "vehicleData" \notin DOMAIN body
        /\ IF Len(first) >= 2 /\ ~Test(TimestampFormat, first)
             THEN /\ body.hasText
                  /\ body.fullText = first
                  /\ body.text = annotations
             ELSE /\ ~body.hasText
                  /\ "fullText" \notin DOMAIN body
                  /\ body.text = << >>

\* a request with fragments and no candidate got its general text back
C9_Witness ==
  /\ NoCandidateAnswer
  /\ Len(annotations) > 1
  /\ responses[1].body.hasText
  /\ responses[1].body.fullText = Trim(annotations[1])

\* C10 (as claimed): a lone timestamp yields no candidate and the answer
\* for a text without a valid plate.
C10_TimestampNoValidPlate ==
  (Responded /\ annotations = << TimestampText >>) =>
    /\ detectedPlates = << >>
    /\ responses[1].body.hasText
    /\ responses[1].body.message =
         << "Text detected but no valid UK license plates found" >>

\* C10 (amended): a lone timestamp yields no candidate and no lookup, and
\* the answer is the one for no meaningful text: hasText false, no text, no
\* plates, no fullText; it is not the answer for no text detected.
C10_TimestampNotMeaningful ==
  (Responded /\ annotations = << TimestampText >>) =>
    /\ detectedPlates = << >>
    /\ lookups = << >>
    /\ responses[1].status = 200
    /\ ~responses[1].body.hasText
    /\ responses[1].body.text = << >>
    /\ responses[1].body.licensePlates = << >>
    /\ "fullText" \notin DOMAIN responses[1].body
    /\ responses[1].body.message =
         << "No meaningful text or license plates detected in the image" >>
    /\ responses[1] # NoTextResponse

\* the request with the lone timestamp has been answered
C10_Witness ==
  /\ Responded
  /\ annotations = << TimestampText >>
  /\ Len(responses) = 1

\* ------------------------------------------------------------------------
\* Properties of the answers
\* ------------------------------------------------------------------------

\* the OCR call resolved without annotations, and the request was answered
OcrReturnedNothing ==
  /\ Responded
  /\ tempFile = "deleted"
  /\ annotations = << >>

\* C11: when the OCR call returns no annotations the request ends in the
\* answer for no text: not an HTTP error, hasText false, an empty text, a
\* message; nothing was extracted and the registry was not asked.
C11_NoTextDetected ==
  OcrReturnedNothing =>
    /\ Len(responses) = 1
    /\ responses[1].status = 200
    /\ "error" \notin DOMAIN responses[1].body
    /\ responses[1].body.hasText = FALSE
    /\ responses[1].body.text = << >>
    /\ "message" \in DOMAIN responses[1].body
    /\ responses[1].body.message # << >>
    /\ caught = "none"
    /\ \A i \in DOMAIN trace : trace[i] \notin { "Extracted", "LookingUp" }
    /\ detectedPlates = << >>
    /\ lookups = << >>
    /\ registry = << >>

\* a request whose OCR call returned nothing has been answered
C11_Witness ==
  /\ OcrReturnedNothing
  /\ trace = << "Idle", "Received", "Responded" >>
  /\ responses # << >>

\* the pieces of s between the occurrences of sep, s from position i on
RECURSIVE SplitFrom(_, _, _, _)
SplitFrom(s, sep, i, piece) ==
  IF i > Len(s) THEN << piece >>
  ELSE IF i + Len(sep) - 1 <= Len(s) /\ SubSeq(s, i, i + Len(sep) - 1) = sep
    THEN << piece >> \o SplitFrom(s, sep, i + Len(sep), << >>)
    ELSE SplitFrom(s, sep, i + 1, Append(piece, s[i]))

\* the registry call ended in a record that lookupVehicle could map
ReturnedVehicle(outcome) ==
  /\ outcome.kind = "body"
  /\ Prop(outcome.data, "status") = Str("success")
  /\ ~IsMappingFailure(outcome)

C13_PlatesNormalized ==
  JustExtracted =>
    \A i \in DOMAIN detectedPlates :
      \A k \in DOMAIN detectedPlates[i] :
        /\ detectedPlates[i][k] \notin WhiteChars
        /\ detectedPlates[i][k] \notin LowerChars

\* every strategy produced a plate, and a plate came of a fragment with a
\* lower-case letter and a space
C13_Witness ==
  /\ JustExtracted
  /\ \A k \in 1 .. 4 :
       \E i \in DOMAIN detectedPlates :
         StrategyOf(annotations, detectedPlates[i]) = k
  /\ << "a", " ", "1" >> \in Range(annotations)
  /\ << "A", "1" >> \in Range(detectedPlates)

\* ------------------------------------------------------------------------
\* Properties of the lookup
\* ------------------------------------------------------------------------

\* c and d are one character, or one letter in its two cases
SameLetter(c, d) ==
  \/ c = d
  \/ \E k \in DOMAIN UpperSeq : { c, d } = { UpperSeq[k], LowerSeq[k] }

\* a from position i on and b from position j on differ in whitespace and
\* in the case of their letters only
RECURSIVE AlikeFrom(_, _, _, _)
AlikeFrom(a, i, b, j) ==
  IF i <= Len(a) /\ a[i] \in WhiteChars THEN AlikeFrom(a, i + 1, b, j)
  ELSE IF j <= Len(b) /\ b[j] \in WhiteChars THEN AlikeFrom(a, i, b, j + 1)
  ELSE IF i > Len(a) \/ j > Len(b) THEN i > Len(a) /\ j > Len(b)
  ELSE SameLetter(a[i], b[j]) /\ AlikeFrom(a, i + 1, b, j + 1)

Alike(a, b) == AlikeFrom(a, 1, b, 1)

\* the request came in at POST /vehicle-lookup with a string
DirectLookup == "str" \in DOMAIN registrationNumber

\* what the handler passed to lookupVehicle
PassedNumber ==
  IF DirectLookup THEN registrationNumber.str ELSE detectedPlates[1]

\* C14: the registry is asked for the number it was passed with the
\* whitespace removed and the letters in upper case, from POST /upload and
\* from POST /vehicle-lookup; numbers that differ in whitespace or case only
\* give the same key.
C14_RegistryKeyNormalized ==
  \A i \in DOMAIN lookups :
    /\ \A k \in DOMAIN lookups[i] :
         lookups[i][k] \notin WhiteChars \cup LowerChars
    /\ Alike(PassedNumber, lookups[i])
    /\ DirectLookup =>
         \A other \in RegistrationTexts :
           Alike(other, PassedNumber) => cleanRegOf(other) = lookups[i]

\* the registry was asked, directly, for a number with a lower-case letter
\* and a space, and the request has been answered
C14_Witness ==
  /\ Responded
  /\ registrationNumber = Str(<< "a", " ", "1" >>)
  /\ lookups = << << "A", "1" >> >>
  /\ registry # << >>

\* where each field of VehicleData comes from in the record of the registry
FieldPaths ==
  [ registrationNumber       |-> << "registration number" >>,
    year                     |-> << "vehicle_description", "year" >>,
    make                     |-> << "vehicle_description", "make" >>,
    model                    |-> << "vehicle_description", "model" >>,
    bodystyle                |-> << "vehicle_description", "bodystyle" >>,
    color                    |-> << "vehicle_description", "color" >>,
    engine                   |-> << "vehicle_description", "engine" >>,
    cylinders                |-> << "vehicle_description", "cylinders" >>,
    gears                    |-> << "vehicle_description", "gears" >>,
    fuel_type                |-> << "vehicle_description", "fuel_type" >>,
    date_first_registered    |-> << "vehicle_registration", "date_first_registered" >>,
    mot_due_status           |-> << "mot_tax_dues", "mot_due", "status" >>,
    mot_due_ends             |-> << "mot_tax_dues", "mot_due", "ends on" >>,
    tax_due_status           |-> << "mot_tax_dues", "tax_due", "status" >>,
    tax_due_ends             |-> << "mot_tax_dues", "tax_due", "ends on" >>,
    power_bhp                |-> << "vehicle_performance", "power", "bhp" >>,
    power_kw                 |-> << "vehicle_performance", "power", "kw" >>,
    max_speed_mph            |-> << "vehicle_performance", "max_speed", "mph" >>,
    fuel_economy_combined    |-> << "fuel_economy", "combined", "mpg" >>,
    fuel_economy_extra_urban |-> << "fuel_economy", "extra_urban", "mpg" >>,
    fuel_economy_urban       |-> << "fuel_economy", "urban_cold", "mpg" >>,
    co2_emission             |-> << "co2_emissions_figures", "co2_emission" >>,
    ved_co2_band             |-> << "co2_emissions_figures", "ved_co2_band" >> ]

Absent == [absent |-> TRUE]

\* what the record o holds at the end of path, Absent when the path leaves it
RECURSIVE At(_, _)
At(o, path) ==
  IF path = << >> THEN o
  ELSE IF "obj" \in DOMAIN o /\ Head(path) \in DOMAIN o.obj
    THEN At(o.obj[Head(path)], Tail(path))
    ELSE Absent

IsSuccess(outcome) ==
  /\ outcome.kind = "body"
  /\ At(outcome.data, << "status" >>) = Str("success")

\* the record has a string at every path of FieldPaths
WellFormed(record) ==
  \A f \in DOMAIN FieldPaths : "str" \in DOMAIN At(record, FieldPaths[f])

\* lookupVehicle has resolved
LookupResolved ==
  /\ registry # << >>
  /\ pc \in { "LookupReturned", "DirectLookupReturned", "Responded" }

\* C15: for a well-formed record with status 'success' the VehicleData is a
\* projection: it has the 23 fields, each the string the record holds at
\* the field's path, unchanged.
C15_PureProjection ==
  (LookupResolved /\ IsSuccess(registry[1])
     /\ WellFormed(At(registry[1].data, << "data" >>))) =>
    LET record == At(registry[1].data, << "data" >>)
    IN  /\ vehicleData # Null
        /\ DOMAIN vehicleData = DOMAIN FieldPaths
        /\ Cardinality(DOMAIN vehicleData) = 23
        /\ \A f \in DOMAIN FieldPaths :
             /\ vehicleData[f] = At(record, FieldPaths[f])
             /\ "str" \in DOMAIN vehicleData[f]
        /\ vehicleData.make = record.obj.vehicle_description.obj.make
        /\ vehicleData.model = record.obj.vehicle_description.obj.model
        /\ vehicleData.power_bhp = Str("148 BHP")

\* the record of the Audi was mapped and sent with the response
C15_Witness ==
  /\ Responded
  /\ registry = << Success(AudiQ3) >>
  /\ vehicleData.make = Str("Audi")
  /\ vehicleData.fuel_economy_urban = Str("51.4 mpg")
  /\ responses[1].body.vehicleData = vehicleData

\* C16 (as claimed): when the record lacks one of the paths of VehicleData,
\* an object on the way or the field at its end, the lookup gives no
\* vehicle, no VehicleData is sent, with all its fields or with some, and
\* the request is answered as for a vehicle that was not found.
C16_MissingPathIsNotFound ==
  (LookupResolved /\ IsSuccess(registry[1])
     /\ ~WellFormed(At(registry[1].data, << "data" >>))) =>
    /\ vehicleData = Null
    /\ Responded =>
         /\ Len(responses) = 1
         /\ "error" \notin DOMAIN responses[1].body
         /\ responses[1].body.vehicleData = Null

\* ------------------------------------------------------------------------
\* Properties of concurrent requests
\* ------------------------------------------------------------------------

\* the response a request gets when it is the only one: from its upload,
\* what its OCR call gave and what its registry call gave
AloneResponse(request) ==
  IF ~request.hasFile \/ request.ocr = "failed" THEN ErrorResponse
  ELSE IF request.annotations = << >> THEN NoTextResponse
  ELSE IF request.detectedPlates # << >>
    THEN PlatesResponse(request.annotations, request.detectedPlates,
                        IF ReturnedVehicle(request.registry[1])
                          THEN vehicleDataOf(At(request.registry[1].data, << "data" >>))
                          ELSE Null)
  ELSE IF Len(Trim(request.annotations[1])) >= 2
          /\ ~Test(TimestampFormat, Trim(request.annotations[1]))
    THEN GeneralTextResponse(request.annotations)
    ELSE NoMeaningfulTextResponse

\* C17: requests are independent: whatever the other requests do, each
\* request gets one response, the one it gets when run alone on the same
\* annotations and the same lookup result, asks the registry for its own
\* first plate only, and two requests with the same annotations extract
\* the same plates.
C17_RequestsIndependent ==
  /\ \A id \in DOMAIN requests :
       /\ requests[id].pc = "Responded" =>
            requests[id].responses = << AloneResponse(requests[id]) >>
       /\ requests[id].pc # "Responded" => requests[id].responses = << >>
       /\ requests[id].lookups =
            IF requests[id].detectedPlates = << >> THEN << >>
            ELSE << requests[id].detectedPlates[1] >>
  /\ \A i, j \in DOMAIN requests :
       (requests[i].ocr = "returned" /\ requests[j].ocr = "returned"
          /\ requests[i].annotations = requests[j].annotations) =>
         requests[i].detectedPlates = requests[j].detectedPlates

\* two requests that were in flight together have been answered, one with
\* a vehicle and one with a plate the registry does not know
C17_Witness ==
  /\ Len(requests) >= 2
  /\ \A id \in { 1, 2 } :
       /\ requests[id].pc = "Responded"
       /\ requests[id].overlapped
       /\ requests[id].detectedPlates # << >>
  /\ requests[1].responses[1].body.vehicleData # Null
  /\ requests[2].responses[1].body.vehicleData = Null

\* ------------------------------------------------------------------------
\* Properties of each strategy
\* ------------------------------------------------------------------------

\* the annotations after the first, trimmed
FragmentsOf(as) == [i \in 1 .. Len(as) - 1 |-> Trim(as[i + 1])]

\* C18 (as claimed): the single-fragment strategy leaves the first
\* annotation out: its candidates come of the annotations after the first,
\* and a lone first annotation gives candidates of the full-text scan only.
C18_FirstAnnotationLeftOut ==
  JustExtracted =>
    /\ \A plate \in Range(Method2(annotations)) :
         \E i \in DOMAIN FragmentsOf(annotations) :
           plate = cleanTextOf(FragmentsOf(annotations)[i])
    /\ Len(annotations) = 1 =>
         Range(detectedPlates) \subseteq Range(Method1(annotations))

\* the plate that starts at position p of text: 2 letters, a space or none,
\* 2 digits, a space or none, 3 letters; << >> when there is none
OccurrenceAt(text, p) ==
  LET sp1 == IF p + 2 <= Len(text) /\ text[p + 2] = " " THEN 1 ELSE 0
      d   == p + 2 + sp1
      sp2 == IF d + 2 <= Len(text) /\ text[d + 2] = " " THEN 1 ELSE 0
      t   == d + 2 + sp2
  IN  IF /\ t + 2 <= Len(text)
         /\ \A k \in { p, p + 1, t, t + 1, t + 2 } : text[k] \in UpperChars
         /\ \A k \in { d, d + 1 } : text[k] \in DigitChars
        THEN << text[p], text[p + 1], text[d], text[d + 1],
                text[t], text[t + 1], text[t + 2] >>
        ELSE << >>

\* the plates of that shape anywhere in text, its newlines read as spaces
Occurrences(text) ==
  LET line == [k \in DOMAIN text |-> IF text[k] = "\n" THEN " " ELSE text[k]]
  IN  { OccurrenceAt(line, p) : p \in DOMAIN line } \ { << >> }

\* C19 (as claimed): every occurrence in the first annotation of 2 letters,
\* an optional space, 2 digits, an optional space, 3 letters is in the
\* extracted list, normalized.
C19_FullTextScanFindsAll ==
  JustExtracted =>
    \A plate \in Occurrences(annotations[1]) : plate \in Range(detectedPlates)

\* the text satisfies the matcher, said by its shape
HasPlateShape(text) ==
  ShapeOf(cleanTextOf(text)) \in FullShapes \cup PartialShapes

\* the plates of the pairs of neighbours of the sequence fs that satisfy
\* the matcher, the two joined by a space
PairPlates(fs) ==
  { cleanTextOf(fs[i] \o << " " >> \o fs[i + 1]) :
      i \in { k \in 1 .. Len(fs) - 1 :
                HasPlateShape(fs[k] \o << " " >> \o fs[k + 1]) } }

NonBlank(text) == \E k \in DOMAIN text : text[k] \notin WhiteChars

AB12CDE == << "A","B","1","2","C","D","E" >>

\* ["AB12 CDE", "AB12", "CDE"]
SplitPlateAnnotations ==
  << << "A","B","1","2"," ","C","D","E" >>,
     << "A","B","1","2" >>, << "C","D","E" >> >>

\* C20 (as claimed): the pair strategy pairs fragments that are consecutive
\* in the sequence after the first annotation: every candidate of the
\* strategy is the join of two such neighbours, two neighbours that are
\* not blank and whose join satisfies the matcher give a candidate, and
\* ["AB12 CDE", "AB12", "CDE"] yields AB12CDE.
C20_PairsOfConsecutiveFragments ==
  JustExtracted =>
    LET fs == FragmentsOf(annotations)
    IN  /\ Range(Method3(annotations)) \subseteq PairPlates(fs)
        /\ \A i \in 1 .. Len(fs) - 1 :
             (NonBlank(fs[i]) /\ NonBlank(fs[i + 1])
                /\ HasPlateShape(fs[i] \o << " " >> \o fs[i + 1])) =>
               cleanTextOf(fs[i] \o << " " >> \o fs[i + 1])
                 \in Range(Method3(annotations))
        /\ annotations = SplitPlateAnnotations =>
             AB12CDE \in Range(Method3(annotations))

\* C20 (amended): the pair strategy pairs the neighbours of the sequence of
\* fragments that are left when the blank ones are dropped: its candidates
\* are exactly the joins of two such neighbours that satisfy the matcher,
\* normalized, all of them in the extracted list, and ["AB12 CDE", "AB12",
\* "CDE"] yields AB12CDE by the full-text scan and by the pair strategy.
C20_PairsOfAdjacentSegments ==
  JustExtracted =>
    LET segments == SelectSeq(FragmentsOf(annotations), NonBlank)
    IN  /\ Range(Method3(annotations)) = PairPlates(segments)
        /\ PairPlates(segments) \subseteq Range(detectedPlates)
        /\ annotations = SplitPlateAnnotations =>
             /\ AB12CDE \in Range(Method1(annotations))
             /\ AB12CDE \in Range(Method3(annotations))
             /\ AB12CDE \in Range(detectedPlates)

\* two halves of a plate with a blank fragment between them were paired
C20_Witness ==
  /\ JustExtracted
  /\ annotations = << << "s","t","o","p" >>,
                      << "A","B","1","2" >>, << " " >>, << "C","D","E" >> >>
  /\ AB12CDE \in Range(Method3(annotations))
  /\ AB12CDE \in Range(detectedPlates)

\* the plates of the triples of neighbours of the sequence fs that satisfy
\* the matcher, the first two joined and the third after a space
TriplePlates(fs) ==
  { cleanTextOf(fs[i] \o fs[i + 1] \o << " " >> \o fs[i + 2]) :
      i \in { k \in 1 .. Len(fs) - 2 :
                HasPlateShape(fs[k] \o fs[k + 1] \o << " " >> \o fs[k + 2]) } }

C22_MatcherJudgesAsPassed ==
  verdict # << >> =>
    verdict[1] = (ShapeOf(candidate) \in FullShapes \cup PartialShapes)

\* s with a space put before position k
WithSpaceAt(s, k) == SubSeq(s, 1, k - 1) \o << " " >> \o SubSeq(s, k, Len(s))

\* s with the letter at position k in its other case
WithCaseFlippedAt(s, k) ==
  [s EXCEPT ![k] = IF s[k] \in LowerChars THEN UpperOf(s[k]) ELSE LowerOf(s[k])]

\* s without its whitespace, one character after the other
RECURSIVE Squeezed(_)
Squeezed(s) ==
  IF s = << >> THEN << >>
  ELSE IF Head(s) \in WhiteChars THEN Squeezed(Tail(s))
  ELSE << Head(s) >> \o Squeezed(Tail(s))

\* C22 (amended): the matcher normalizes the string itself: it accepts it
\* exactly when the string without its whitespace and with its letters in
\* upper case has one of the shapes, so a space put anywhere, or a letter
\* in its other case, changes nothing to the answer.
C22_MatcherNormalizes ==
  verdict # << >> =>
    /\ verdict[1] =
         (ShapeOf([k \in DOMAIN Squeezed(candidate) |->
                     UpperOf(Squeezed(candidate)[k])])
            \in FullShapes \cup PartialShapes)
    /\ \A k \in 1 .. Len(candidate) + 1 :
         isValidUKLicensePlate(WithSpaceAt(candidate, k)) = verdict[1]
    /\ \A k \in DOMAIN candidate :
         isValidUKLicensePlate(WithCaseFlippedAt(candidate, k)) = verdict[1]

\* the matcher accepted a string with a lower-case letter and a space that
\* has no shape as it is
C22_Witness ==
  /\ verdict = << TRUE >>
  /\ \E k \in DOMAIN candidate : candidate[k] \in LowerChars
  /\ \E k \in DOMAIN candidate : candidate[k] \in WhiteChars
  /\ ShapeOf(candidate) \notin FullShapes \cup PartialShapes

\* C24: every plate of the extracted list satisfies the matcher, and has
\* one of its shapes as it is, whatever the annotations and whichever
\* strategy produced it, the full-text scan included.
C24_PlatesSatisfyMatcher ==
  JustExtracted =>
    /\ \A i \in DOMAIN detectedPlates :
         /\ isValidUKLicensePlate(detectedPlates[i])
         /\ ShapeOf(detectedPlates[i]) \in FullShapes \cup PartialShapes
    /\ \A plate \in Range(Method1(annotations)) : IsCurrentFormat(plate)

\* the full-text scan found two plates and the fragments gave others
C24_Witness ==
  /\ JustExtracted
  /\ Len(Method1(annotations)) = 2
  /\ Len(detectedPlates) > 2

\* C28 (as claimed): when the request is answered the uploaded file is no
\* longer in the directory of the uploads, on every path.
C28_TempFileDeleted ==
  Responded => tempFile # "present"

\* a request came in at POST /vehicle-lookup and has been answered
DirectAnswered ==
  /\ Responded
  /\ registrationNumber # Undefined \/ responses = << RequiredResponse >>

\* C29 (as claimed): POST /vehicle-lookup without a registration number, or
\* with an empty one, answers 400 and does not ask the registry; otherwise
\* it asks the registry once, and answers 200 with success true and the
\* vehicle when the lookup returned one, and 404 with success false when
\* it did not, whatever the reason.
C29_VehicleLookupAnswers ==
  DirectAnswered =>
    /\ Len(responses) = 1
    /\ IF registrationNumber \in { Undefined, Null, Str(<< >>), Num(0) }
         THEN /\ responses[1].status = 400
              /\ lookups = << >>
              /\ registry = << >>
         ELSE /\ Len(lookups) = 1
              /\ Len(registry) = 1
              /\ IF ReturnedVehicle(registry[1])
                   THEN /\ responses[1].status = 200
                        /\ responses[1].body.success = TRUE
                        /\ responses[1].body.vehicleData = vehicleData
                        /\ vehicleData # Null
                   ELSE /\ responses[1].status = 404
                        /\ responses[1].body.success = FALSE
                        /\ "vehicleData" \notin DOMAIN responses[1].body

\* make, a space and model of a vehicle or of a stored item, as written
NameOf(v) == v.make \o << " " >> \o v.model

\* two names differ in the case of their letters only
SameKey(v, w) ==
  /\ Len(NameOf(v)) = Len(NameOf(w))
  /\ \A i \in DOMAIN NameOf(v) : SameLetter(NameOf(v)[i], NameOf(w)[i])

\* the stored list has an item of the key of the vehicle
KeyStored(v) == \E i \in DOMAIN storage.items : SameKey(storage.items[i], v)

\* C23: the stored collection never has two items whose make and model,
\* joined by a space, are the same up to letter case, and every stored item
\* carries that name in lower case as its fullModel; and a call of
\* saveToCollection that finds the key of its vehicle stored when it reads
\* the storage returns false and leaves the storage as it is, whatever
\* other calls are in flight.
C23_NoDuplicateKeys ==
  /\ [](/\ \A i, j \in DOMAIN storage.items :
              SameKey(storage.items[i], storage.items[j]) => i = j
        /\ \A i \in DOMAIN storage.items :
              /\ Len(storage.items[i].fullModel) = Len(NameOf(storage.items[i]))
              /\ \A n \in DOMAIN storage.items[i].fullModel :
                   /\ storage.items[i].fullModel[n] \notin Range(UpperSeq)
                   /\ SameLetter(storage.items[i].fullModel[n],
                                 NameOf(storage.items[i])[n]))
  /\ [][\A k \in DOMAIN saves :
          (/\ k \in DOMAIN saves'
           /\ saves[k].pc = "reading"
           /\ saves'[k].pc # "reading"
           /\ KeyStored(saves[k].vehicle))
            => /\ saves'[k].pc = "done"
               /\ saves'[k].result = FALSE
               /\ storage' = storage]_vars

\* a call for "AU q3" has returned false with "Au Q3" stored, or the other
\* way round
C23_Witness ==
  \E k \in DOMAIN saves :
    /\ saves[k].pc = "done"
    /\ saves[k].result = FALSE
    /\ \E i \in DOMAIN storage.items :
         /\ SameKey(storage.items[i], saves[k].vehicle)
         /\ storage.items[i].make # saves[k].vehicle.make

\* C25: every vehicle for which saveToCollection has returned true since
\* the collection was last cleared is in the stored collection, whatever
\* the interleaving of the calls.
C25_NoCollectedVehicleLost ==
  \A fullModel \in history.collected :
    \E i \in DOMAIN storage.items : storage.items[i].fullModel = fullModel

\* C26: on the camera screen, once the count has been loaded and while no
\* call of saveToCollection is in progress, collectionCount is the number
\* of vehicles stored.
C26_CountIsNumberStored ==
  (/\ camera.loaded
   /\ ~camera.showCollection
   /\ \A k \in DOMAIN saves : saves[k].pc = "done")
    => camera.collectionCount = Len(storage.items)

\* C27: on the camera screen, whenever vehicleData and selectedImageUri
\* are both set and no upload is in flight, the upload of that image was
\* answered with that vehicle.
C27_VehicleIsOfSelectedImage ==
  (/\ camera.vehicleData # Null
   /\ camera.selectedImageUri # 0
   /\ camera.uploading = 0)
    => /\ history.results[camera.selectedImageUri].ok
       /\ history.results[camera.selectedImageUri].data.vehicleData
            = camera.vehicleData

====
